---- MODULE Spec2Model ----
(***************************************************************************)
(* Model of removebg.RemoveBg (src/removebg/removebg.py): argument         *)
(* validation, form-field construction, background selection, the single   *)
(* POST, raise_for_status, and _output_file (file write or error logging). *)
(*                                                                         *)
(* One call is one action.  The environment's answers during a call (does  *)
(* open() succeed, what does the session answer, does the write succeed)   *)
(* are drawn with \E at the point where the code asks for them.            *)
(***************************************************************************)
EXTENDS Integers, Sequences, FiniteSets, TLC

VARIABLES
    pc,         \* "idle" before the call, "done" after it
    op,         \* which method was called
    args,       \* the arguments of the call
    outcome,    \* "return" or the class of the exception that escaped
    retval,     \* the returned value (NoneContent for Python's None)
    posts,      \* the requests sent with session.post during the call
    response,   \* the response session.post returned (NoResponse if none)
    opened,     \* the file handles opened during the call
    stillOpen,  \* the file handles still open when the call ended
    fs0,        \* content of the output file before the call
    fs,         \* content of the output file after the call
    log         \* the _logger.error entries emitted during the call

vars == <<pc, op, args, outcome, retval, posts, response, opened, stillOpen,
          fs0, fs, log>>

(***************************************************************************)
(* Bounds of the model                                                     *)
(***************************************************************************)
MaxTitleLen == 2      \* longest error title in a response body
MaxContentLen == 1    \* longest binary response content, in bytes

(***************************************************************************)
(* Python values                                                           *)
(***************************************************************************)
\* Python's None where a str is expected; no input string equals it.
None == "<None>"

\* bool(s) for s a str or None
Truthy(s) == s /= None /\ s /= ""

RECURSIVE SeqsUpTo(_, _)
SeqsUpTo(S, n) ==
    IF n = 0 THEN {<<>>}
    ELSE LET shorter == SeqsUpTo(S, n - 1)
         IN  shorter \cup {Append(s, c) : s \in {t \in shorter : Len(t) = n - 1}, c \in S}

\* Strings whose characters matter are sequences of one-character strings.
Chars == {"F", "o"}

LowerChar(c) == IF c = "F" THEN "f" ELSE c

\* str.lower()
Lower(s) == [i \in 1..Len(s) |-> LowerChar(s[i])]

\* the literal "unknown error" (line 76)
UnknownError == <<"u", "n", "k", "n", "o", "w", "n", " ", "e", "r", "r", "o", "r">>

(***************************************************************************)
(* JSON values, restricted to the two keys the code reads                  *)
(***************************************************************************)
Missing == [t |-> "missing"]            \* key absent from an object
JNull == [t |-> "null"]
JNum(n) == [t |-> "num", n |-> n]
JStr(s) == [t |-> "str", s |-> s]
JList(l) == [t |-> "list", items |-> l]
JObj(e, ti) == [t |-> "obj", errors |-> e, title |-> ti]

\* bool(v) of a parsed JSON value; dict.get of an absent key gives None
JTruthy(v) ==
    CASE v.t = "missing" -> FALSE
      [] v.t = "null" -> FALSE
      [] v.t = "num" -> v.n /= 0
      [] v.t = "str" -> v.s /= <<>>
      [] v.t = "list" -> v.items /= <<>>
      [] v.t = "obj" -> v.errors /= Missing \/ v.title /= Missing

Titles == SeqsUpTo(Chars, MaxTitleLen)

TitleValues == {Missing, JNull, JNum(5)} \cup {JStr(s) : s \in Titles}

ErrorElems == {JNum(5), JStr(<<"o">>)} \cup {JObj(Missing, tv) : tv \in TitleValues}

ErrorsValues ==
    {Missing, JNull, JNum(5), JStr(<<"o">>), JList(<<>>),
     JObj(Missing, JStr(<<"o">>)),
     JList(<<JObj(Missing, JStr(<<"F">>)), JObj(Missing, JStr(<<"o">>))>>)}
    \cup {JList(<<e>>) : e \in ErrorElems}

Payloads == {JNum(5), JList(<<>>)} \cup {JObj(ev, Missing) : ev \in ErrorsValues}

(***************************************************************************)
(* Responses                                                               *)
(***************************************************************************)
Bytes == {0, 1}

\* A response body is either binary content (not JSON) or the text of a
\* JSON value.
BinBody(b) == [kind |-> "bytes", bytes |-> b]
JsonBody(j) == [kind |-> "json", json |-> j]

NoneContent == [kind |-> "none"]        \* Python's None where bytes are expected
Absent == [kind |-> "absent"]           \* the file does not exist
Partial == [kind |-> "partial"]         \* a file truncated by a failed write
OldContent == BinBody(<<1, 1, 0>>)      \* an output file left by an earlier run

Contents == {BinBody(b) : b \in SeqsUpTo(Bytes, MaxContentLen)}

Bodies == Contents \cup {JsonBody(j) : j \in Payloads}

Statuses == {200, 201, 299, 302, 400, 500}

Responses == [status_code : Statuses, content : Bodies]

NoResponse == [status_code |-> 0, content |-> NoneContent]

(***************************************************************************)
(* _check_arguments (lines 49-65)                                          *)
(***************************************************************************)
SizeValues == {"auto", "preview", "small", "regular", "medium", "hd", "full", "4k"}

TypeValues == {"auto", "person", "product", "animal", "car", "car_interior",
               "car_part", "transportation", "graphics", "other"}

TypeLevelValues == {"none", "latest", "1", "2"}

FormatValues == {"jpg", "zip", "png", "auto"}

ChannelsValues == {"rgba", "alpha"}

_check_arguments_skips_channels(size, type, type_level, format, channels) ==
    IF size \notin SizeValues THEN "size argument wrong"
    ELSE IF type \notin TypeValues THEN "type argument wrong"
    ELSE IF type_level \notin TypeLevelValues THEN "type_level argument wrong"
    ELSE IF format \notin FormatValues THEN "format argument wrong"
    ELSE "ok"

\* "ok", or the message of the ValueError raised; the checks run in this order
_check_arguments(size, type, type_level, format, channels) ==
    IF size \notin SizeValues THEN "size argument wrong"
    ELSE IF type \notin TypeValues THEN "type argument wrong"
    ELSE IF type_level \notin TypeLevelValues THEN "type_level argument wrong"
    ELSE IF format \notin FormatValues THEN "format argument wrong"
    ELSE IF channels \notin ChannelsValues THEN "channels argument wrong"
    ELSE "ok"

(***************************************************************************)
(* _build_common_data (lines 90-108)                                       *)
(***************************************************************************)
_build_common_data_crop_not_none(size, type, type_level, format, roi, crop, scale, position, channels, shadow, semitransparency) ==
    [size |-> size,
     type |-> type,
     type_level |-> type_level,
     format |-> format,
     roi |-> roi,
     crop |-> IF crop /= None THEN "true" ELSE "false",
     crop_margin |-> crop,
     scale |-> scale,
     position |-> position,
     channels |-> channels,
     add_shadow |-> IF shadow THEN "true" ELSE "false",
     semitransparency |-> IF semitransparency THEN "true" ELSE "false"]

_build_common_data(size, type, type_level, format, roi, crop, scale, position, channels, shadow, semitransparency) ==
    [size |-> size,
     type |-> type,
     type_level |-> type_level,
     format |-> format,
     roi |-> roi,
     crop |-> IF Truthy(crop) THEN "true" ELSE "false",
     crop_margin |-> crop,
     scale |-> scale,
     position |-> position,
     channels |-> channels,
     add_shadow |-> IF shadow THEN "true" ELSE "false",
     semitransparency |-> IF semitransparency THEN "true" ELSE "false"]

(***************************************************************************)
(* Background selection (lines 155-161, 230-236, 305-311)                  *)
(***************************************************************************)
BgBranch_swapped(bg_type, bg) ==
    IF bg_type = "path" /\ Truthy(bg) THEN "path"
    ELSE IF bg_type = "color" /\ Truthy(bg) THEN "url"
    ELSE IF bg_type = "url" /\ Truthy(bg) THEN "color"
    ELSE "none"

\* which branch of the if/elif chain is taken: "path", "color", "url" or "none"
BgBranch(bg_type, bg) ==
    IF bg_type = "path" /\ Truthy(bg) THEN "path"
    ELSE IF bg_type = "color" /\ Truthy(bg) THEN "color"
    ELSE IF bg_type = "url" /\ Truthy(bg) THEN "url"
    ELSE "none"

\* the form fields after the chain
BgData(data, bg_type, bg) ==
    CASE BgBranch(bg_type, bg) = "color" -> data @@ ("bg_color" :> bg)
      [] BgBranch(bg_type, bg) = "url" -> data @@ ("bg_image_url" :> bg)
      [] OTHER -> data

\* the file parts after the chain
BgFiles(files, bg_type, bg) ==
    IF BgBranch(bg_type, bg) = "path" THEN files \cup {"bg_image_file"} ELSE files

(***************************************************************************)
(* Response.raise_for_status (called on lines 169, 245, 320)               *)
(***************************************************************************)
\* TRUE when HTTPError is raised: client errors 4xx and server errors 5xx
raise_for_status(status_code) == 400 <= status_code /\ status_code < 600

(***************************************************************************)
(* _output_file (lines 67-88)                                              *)
(***************************************************************************)
Raised(e) == [exc |-> e, val |-> Missing]
Value(v) == [exc |-> "none", val |-> v]

\* payload["errors"][0] (line 81)
FirstError(errs) ==
    CASE errs.t = "list" -> Value(errs.items[1])
      [] errs.t = "str" -> Value(JStr(<<errs.s[1]>>))
      [] errs.t = "obj" -> Raised("KeyError")
      [] OTHER -> Raised("TypeError")

\* .get("title", error_reason) (lines 81-82)
GetTitle(elem) ==
    IF elem.t /= "obj" THEN Raised("AttributeError")
    ELSE IF elem.title = Missing THEN Value(JStr(UnknownError))
    ELSE Value(elem.title)

\* .lower() (line 82)
LowerTitle(v) ==
    IF v.t = "str" THEN Value(JStr(Lower(v.s))) ELSE Raised("AttributeError")

\* lines 76-85: the reason to log, or the exception that escapes the try
ErrorReason(resp) ==
    IF resp.content.kind /= "json"
    THEN Value(JStr(UnknownError))                 \* json() raises ValueError
    ELSE LET payload == resp.content.json
         IN  IF payload.t = "obj" /\ JTruthy(payload.errors)
             THEN LET first == FirstError(payload.errors)
                      title == IF first.exc = "none" THEN GetTitle(first.val) ELSE first
                  IN  IF title.exc = "none" THEN LowerTitle(title.val) ELSE title
             ELSE Value(JStr(UnknownError))

WriteFailedEntry(name) == [msg |-> "Unable to write file", file |-> name]

UnableToSaveEntry(name, reason, status) ==
    [msg |-> "Unable to save", file |-> name, reason |-> reason, status |-> status]

IsOk_inverted(status_code) == status_code /= 200

\* status_code == requests.codes.ok (line 69)
IsOk(status_code) == status_code = 200

\* fault is what the file system does to open(new_file_name, 'wb') and write:
\* "none", "open" (open raises) or "write" (write raises after truncation).
\* Result: the exception that escapes, the file, the log, the handles opened;
\* the with statement of line 71 closes the handle it opened.
_output_file(resp, new_file_name, fault, file, entries) ==
    IF IsOk(resp.status_code)
    THEN IF fault = "open" \/ ~Truthy(new_file_name)
         THEN [exc |-> "none", file |-> file, opened |-> {},
               log |-> Append(entries, WriteFailedEntry(new_file_name))]
         ELSE IF fault = "write"
         THEN [exc |-> "none", file |-> Partial, opened |-> {"out"},
               log |-> Append(entries, WriteFailedEntry(new_file_name))]
         ELSE [exc |-> "none", file |-> resp.content, opened |-> {"out"},
               log |-> entries]
    ELSE LET r == ErrorReason(resp)
         IN  IF r.exc /= "none"
             THEN [exc |-> r.exc, file |-> file, opened |-> {}, log |-> entries]
             ELSE [exc |-> "none", file |-> file, opened |-> {},
                   log |-> Append(entries,
                              UnableToSaveEntry(new_file_name, r.val.s, resp.status_code))]

(***************************************************************************)
(* Lines 169-176 (the same as 245-252 and 320-327): raise_for_status, then *)
(* deliver the content as returned bytes and/or through _output_file       *)
(***************************************************************************)
Delivered(exc, ret, file, entries, handles) ==
    [outcome |-> exc, retval |-> ret, fs |-> file, log |-> entries, opened |-> handles]

HandleResponse(resp, new_file_name, return_bytes, fault, file) ==
    LET o == _output_file(resp, new_file_name, fault, file, <<>>)
    IN  IF raise_for_status(resp.status_code)
        THEN Delivered("HTTPError", NoneContent, file, <<>>, {})
        ELSE IF return_bytes
        THEN IF Truthy(new_file_name)
             THEN IF o.exc /= "none"
                  THEN Delivered(o.exc, NoneContent, o.file, o.log, o.opened)
                  ELSE Delivered("return", resp.content, o.file, o.log, o.opened)
             ELSE Delivered("return", resp.content, file, <<>>, {})
        ELSE IF Truthy(new_file_name)
        THEN IF o.exc /= "none"
             THEN Delivered(o.exc, NoneContent, o.file, o.log, o.opened)
             ELSE Delivered("return", NoneContent, o.file, o.log, o.opened)
        ELSE Delivered("return", NoneContent, file, <<>>, {})

\* the file system is asked to write only when _output_file takes its first branch
Faults(resp, new_file_name) ==
    IF ~raise_for_status(resp.status_code) /\ Truthy(new_file_name) /\ IsOk(resp.status_code)
    THEN {"none", "open", "write"}
    ELSE {"none"}

(***************************************************************************)
(* Handle release                                                          *)
(***************************************************************************)
FinallyClose_skipped(handles, bg_file_handle) == handles

\* the finally block (lines 177-182, 253-258, 328-333)
FinallyClose(handles, bg_file_handle) ==
    IF bg_file_handle /= None THEN handles \ {bg_file_handle} ELSE handles

\* leaving "with open(img_file_path, 'rb') as img_file" (line 149)
WithExit(handles) == handles \ {"image_file"}

(***************************************************************************)
(* Inputs                                                                  *)
(***************************************************************************)
SizeInputs == {"4k", "huge"}
TypeInputs == {"car_part", "tree"}
TypeLevelInputs == {"latest", "3"}
FormatInputs == {"zip", "gif"}
ChannelsInputs == {"alpha", "rgb"}
CropInputs == {None, "", "10px"}
BgInputs == {None, "", "bg"}
BgTypeInputs == {None, "path", "url", "color", "gradient"}
NewFileNames == {None, "", "out.png"}

\* crop, shadow, semitransparency as the entry operations are called
FlagInputs == {<<None, FALSE, TRUE>>, <<"10px", TRUE, FALSE>>}

Args(img, size, type, type_level, format, channels, flags, bg, bg_type, new_file_name, return_bytes) ==
    [img |-> img, size |-> size, type |-> type, type_level |-> type_level,
     format |-> format, roi |-> "0 0 100% 100%", crop |-> flags[1],
     scale |-> "original", position |-> "original", channels |-> channels,
     shadow |-> flags[2], semitransparency |-> flags[3], bg |-> bg,
     bg_type |-> bg_type, new_file_name |-> new_file_name,
     return_bytes |-> return_bytes]

\* the arguments of a call of an entry operation on source img
CallArgs(img) ==
    {Args(img, size, type, type_level, format, channels, flags, bg, bg_type, new_file_name, return_bytes) :
        size \in SizeInputs, type \in TypeInputs, type_level \in TypeLevelInputs,
        format \in FormatInputs, channels \in ChannelsInputs, flags \in FlagInputs,
        bg \in BgInputs, bg_type \in BgTypeInputs,
        new_file_name \in NewFileNames, return_bytes \in BOOLEAN}

CheckArgs(a) == _check_arguments(a.size, a.type, a.type_level, a.format, a.channels)

CommonData(a) ==
    _build_common_data(a.size, a.type, a.type_level, a.format, a.roi, a.crop, a.scale,
                       a.position, a.channels, a.shadow, a.semitransparency)

(***************************************************************************)
(* The state after a call                                                  *)
(***************************************************************************)
Finish(name, a, exc, ret, sent, resp, handles, left, file, entries) ==
    /\ pc' = "done"
    /\ op' = name
    /\ args' = a
    /\ outcome' = exc
    /\ retval' = ret
    /\ posts' = sent
    /\ response' = resp
    /\ opened' = handles
    /\ stillOpen' = left
    /\ fs' = file
    /\ log' = entries
    /\ UNCHANGED fs0

\* the call ends with an exception before any response was received
Abort(name, a, exc, sent, handles, left) ==
    Finish(name, a, exc, NoneContent, sent, NoResponse, handles, left, fs, <<>>)

Request(files, data) == [files |-> files, data |-> data]

(***************************************************************************)
(* remove_background_from_img_file (lines 110-182)                         *)
(***************************************************************************)
FileVariant(a) ==
    LET files == BgFiles({"image_file"}, a.bg_type, a.bg)
        data == BgData(CommonData(a), a.bg_type, a.bg)
        bg_file_handle == IF BgBranch(a.bg_type, a.bg) = "path" THEN "bg_image_file" ELSE None
        req == Request(files, data)
    IN  IF CheckArgs(a) /= "ok"
        THEN Abort("file", a, "ValueError", <<>>, {}, {})
        ELSE \E srcOk \in BOOLEAN :
          IF ~srcOk
          THEN Abort("file", a, "OSError", <<>>, {}, {})
          ELSE \E bgOk \in (IF bg_file_handle /= None THEN BOOLEAN ELSE {TRUE}) :
            IF ~bgOk
            THEN Abort("file", a, "OSError", <<>>, {"image_file"},
                       FinallyClose(WithExit({"image_file"}), None))
            ELSE \E postOk \in BOOLEAN :
              IF ~postOk
              THEN Abort("file", a, "ConnectionError", <<req>>, files,
                         FinallyClose(WithExit(files), bg_file_handle))
              ELSE \E resp \in Responses :
                   \E fault \in Faults(resp, a.new_file_name) :
                     LET d == HandleResponse(resp, a.new_file_name, a.return_bytes, fault, fs)
                     IN  Finish("file", a, d.outcome, d.retval, <<req>>, resp,
                                files \cup d.opened,
                                FinallyClose(WithExit(files), bg_file_handle),
                                d.fs, d.log)

remove_background_from_img_file ==
    /\ pc = "idle"
    /\ \E a \in CallArgs("in.png") : FileVariant(a)

(***************************************************************************)
(* remove_background_from_img_url (lines 184-258) and                      *)
(* remove_background_from_base64_img (lines 260-333): the same code but    *)
(* for the form field that carries the image.  The request's files are the *)
(* set of file parts; the empty set stands for "files if files else None". *)
(***************************************************************************)
NoConsumptionMode_or(new_file_name, return_bytes) ==
    ~return_bytes \/ new_file_name = None

NoConsumptionMode_unchecked(new_file_name, return_bytes) == FALSE

\* lines 217 and 292: not return_bytes and new_file_name is None
NoConsumptionMode(new_file_name, return_bytes) ==
    ~return_bytes /\ new_file_name = None

FormVariant(name, field, a) ==
    LET files == BgFiles({}, a.bg_type, a.bg)
        data == BgData(CommonData(a) @@ (field :> a.img), a.bg_type, a.bg)
        bg_file_handle == IF BgBranch(a.bg_type, a.bg) = "path" THEN "bg_image_file" ELSE None
        req == Request(files, data)
    IN  IF CheckArgs(a) /= "ok"
        THEN Abort(name, a, "ValueError", <<>>, {}, {})
        ELSE IF NoConsumptionMode(a.new_file_name, a.return_bytes)
        THEN Abort(name, a, "ValueError", <<>>, {}, {})
        ELSE \E bgOk \in (IF bg_file_handle /= None THEN BOOLEAN ELSE {TRUE}) :
          IF ~bgOk
          THEN Abort(name, a, "OSError", <<>>, {}, FinallyClose({}, None))
          ELSE \E postOk \in BOOLEAN :
            IF ~postOk
            THEN Abort(name, a, "ConnectionError", <<req>>, files,
                       FinallyClose(files, bg_file_handle))
            ELSE \E resp \in Responses :
                 \E fault \in Faults(resp, a.new_file_name) :
                   LET d == HandleResponse(resp, a.new_file_name, a.return_bytes, fault, fs)
                   IN  Finish(name, a, d.outcome, d.retval, <<req>>, resp,
                              files \cup d.opened,
                              FinallyClose(files, bg_file_handle),
                              d.fs, d.log)

remove_background_from_img_url ==
    /\ pc = "idle"
    /\ \E a \in CallArgs("http://img") : FormVariant("url", "image_url", a)

remove_background_from_base64_img ==
    /\ pc = "idle"
    /\ \E a \in CallArgs("aW1n") : FormVariant("base64", "image_file_b64", a)

(***************************************************************************)
(* The helpers called on their own                                         *)
(***************************************************************************)
HelperArgs(size, type, type_level, format, channels, crop, shadow, semitransparency, new_file_name) ==
    Args(None, size, type, type_level, format, channels,
         <<crop, shadow, semitransparency>>, None, None, new_file_name, FALSE)

\* _build_common_data(...) returns the form fields
build_common_data_call ==
    /\ pc = "idle"
    /\ \E size \in SizeInputs, type \in TypeInputs, type_level \in TypeLevelInputs,
          format \in FormatInputs, channels \in ChannelsInputs, crop \in CropInputs,
          shadow \in BOOLEAN, semitransparency \in BOOLEAN :
         LET a == HelperArgs(size, type, type_level, format, channels, crop, shadow,
                             semitransparency, None)
         IN  Finish("_build_common_data", a, "return", CommonData(a), <<>>, NoResponse,
                    {}, {}, fs, <<>>)

\* _output_file(response, new_file_name)
output_file_call ==
    /\ pc = "idle"
    /\ \E resp \in Responses, new_file_name \in NewFileNames,
          fault \in {"none", "open", "write"} :
         LET a == HelperArgs("regular", "auto", "none", "auto", "rgba", None, FALSE, TRUE,
                             new_file_name)
             o == _output_file(resp, new_file_name, fault, fs, <<>>)
         IN  Finish("_output_file", a, IF o.exc = "none" THEN "return" ELSE o.exc,
                    NoneContent, <<>>, resp, o.opened, {}, o.file, o.log)

(***************************************************************************)
(* Specification                                                           *)
(***************************************************************************)
NoArgs == HelperArgs("regular", "auto", "none", "auto", "rgba", None, FALSE, TRUE, None)

Init ==
    /\ pc = "idle"
    /\ op = "none"
    /\ args = NoArgs
    /\ outcome = "none"
    /\ retval = NoneContent
    /\ posts = <<>>
    /\ response = NoResponse
    /\ opened = {}
    /\ stillOpen = {}
    /\ fs0 \in {Absent, OldContent}
    /\ fs = fs0
    /\ log = <<>>

Next ==
    \/ remove_background_from_img_file
    \/ remove_background_from_img_url
    \/ remove_background_from_base64_img
    \/ build_common_data_call
    \/ output_file_call

Spec == Init /\ [][Next]_vars

(***************************************************************************)
(* Properties                                                              *)
(***************************************************************************)
EntryOps == {"file", "url", "base64"}

Called == pc = "done" /\ op \in EntryOps

\* the enumerations as the specification lists them
ListedSizes == {"auto", "preview", "small", "regular", "medium", "hd", "full", "4k"}
ListedTypes == {"auto", "person", "product", "animal", "car", "car_interior",
                "car_part", "transportation", "graphics", "other"}
ListedTypeLevels == {"none", "latest", "1", "2"}
ListedFormats == {"jpg", "zip", "png", "auto"}
ListedChannels == {"rgba", "alpha"}

OptionsListed ==
    /\ args.size \in ListedSizes
    /\ args.type \in ListedTypes
    /\ args.type_level \in ListedTypeLevels
    /\ args.format \in ListedFormats
    /\ args.channels \in ListedChannels

Answered == response /= NoResponse

Success2xx == 200 <= response.status_code /\ response.status_code <= 299

\* C1: a call of an entry operation with any of size, type, type_level,
\* format, channels outside its listed enumeration ends with ValueError,
\* has sent no POST and has opened no file.
C1_InvalidOptionRejected ==
    (Called /\ ~OptionsListed) =>
        (outcome = "ValueError" /\ posts = <<>> /\ opened = {})

\* C1 witness: only channels is outside its enumeration, and the call was rejected.
C1_Witness ==
    /\ Called
    /\ args.channels \notin ListedChannels
    /\ args.size \in ListedSizes /\ args.type \in ListedTypes
    /\ args.type_level \in ListedTypeLevels /\ args.format \in ListedFormats
    /\ outcome = "ValueError"
    /\ posts = <<>>

\* C2: a non-2xx response to an entry operation is not raised: the call
\* returns normally, returns no bytes, leaves the output file as it was, and
\* (a destination file name being given) logs one entry with that file name,
\* the reason and the status code.
C2_ApiErrorLoggedNotRaised ==
    (Called /\ Answered /\ ~Success2xx) =>
        /\ outcome = "return"
        /\ retval = NoneContent
        /\ fs = fs0
        /\ Truthy(args.new_file_name) =>
              /\ Len(log) = 1
              /\ log[1].msg = "Unable to save"
              /\ log[1].file = args.new_file_name
              /\ log[1].status = response.status_code

\* C3: in the URL and base64 variants with listed options, new_file_name=None
\* with return_bytes false ends with ValueError before any POST; with
\* new_file_name set or return_bytes true no ValueError is raised, and the
\* call returns normally when the session answers 200.
C3_ConsumptionModeRequired ==
    (pc = "done" /\ op \in {"url", "base64"} /\ OptionsListed) =>
        /\ (args.new_file_name = None /\ ~args.return_bytes)
              => (outcome = "ValueError" /\ posts = <<>>)
        /\ (args.new_file_name /= None \/ args.return_bytes)
              => /\ outcome /= "ValueError"
                 /\ (Answered /\ response.status_code = 200) => outcome = "return"

\* C3 witness: the base64 variant rejected a call that names no consumption mode.
C3_Witness ==
    /\ pc = "done" /\ op = "base64" /\ OptionsListed
    /\ args.new_file_name = None /\ ~args.return_bytes
    /\ outcome = "ValueError"
    /\ posts = <<>>

\* C4: when a call of an entry operation has ended, on any exit path, no
\* handle it opened is still open.
C4_HandlesClosed == Called => stillOpen = {}

\* C4 witness: the file variant opened the source and the background file and
\* the server answered with an error status.
C4_Witness ==
    /\ Called /\ op = "file"
    /\ {"image_file", "bg_image_file"} \subseteq opened
    /\ outcome = "HTTPError"
    /\ stillOpen = {}

\* C5 as stated: with a 200 response of content C and return_bytes=True the
\* call returns exactly C, and with a non-empty new_file_name the file holds
\* exactly C as well.
C5_RoundTripAsStated ==
    (Called /\ Answered /\ response.status_code = 200 /\ args.return_bytes) =>
        /\ outcome = "return"
        /\ retval = response.content
        /\ Truthy(args.new_file_name) => fs = response.content

\* C5 amended: with a 200 response of content C and return_bytes=True the call
\* returns exactly C; with a non-empty new_file_name the file holds exactly C
\* as well and nothing is logged, unless opening or writing the file failed,
\* in which case exactly that failure is logged.
C5_RoundTrip ==
    (Called /\ Answered /\ response.status_code = 200 /\ args.return_bytes) =>
        /\ outcome = "return"
        /\ retval = response.content
        /\ Truthy(args.new_file_name) =>
              \/ fs = response.content /\ log = <<>>
              \/ log = <<WriteFailedEntry(args.new_file_name)>>

\* C5 witness: both deliveries happened in one call, over an older file.
C5_Witness ==
    /\ Called /\ response.status_code = 200 /\ args.return_bytes
    /\ Truthy(args.new_file_name)
    /\ retval = response.content
    /\ fs = response.content
    /\ fs /= fs0

\* the background parts of a request
BgParts(req) ==
    (req.files \cap {"bg_image_file"}) \cup (DOMAIN req.data \cap {"bg_color", "bg_image_url"})

\* the part that matches a bg_type
MatchingPart(bg_type) ==
    CASE bg_type = "path" -> "bg_image_file"
      [] bg_type = "color" -> "bg_color"
      [] bg_type = "url" -> "bg_image_url"

\* C6: a request sent with bg_type path, url or color and a background value
\* holds exactly the background part that matches bg_type (a form field
\* carries the value itself); and whatever bg and bg_type are, a request never
\* holds more than one background part.
C6_BackgroundSelection ==
    Called => \A i \in DOMAIN posts :
        /\ Cardinality(BgParts(posts[i])) <= 1
        /\ (args.bg_type \in {"path", "url", "color"} /\ Truthy(args.bg)) =>
              /\ BgParts(posts[i]) = {MatchingPart(args.bg_type)}
              /\ args.bg_type /= "path" =>
                    posts[i].data[MatchingPart(args.bg_type)] = args.bg

\* C6 witness: a request was sent with a colour background.
C6_Witness ==
    /\ Called /\ Len(posts) = 1
    /\ args.bg_type = "color" /\ Truthy(args.bg)
    /\ BgParts(posts[1]) = {"bg_color"}

\* what C7 says of the form fields d built from the arguments a
FlagsNormalized(d, a) ==
    /\ d.crop = (IF a.crop /= None /\ a.crop /= "" THEN "true" ELSE "false")
    /\ d.crop_margin = a.crop
    /\ d.add_shadow = (IF a.shadow THEN "true" ELSE "false")
    /\ d.semitransparency = (IF a.semitransparency THEN "true" ELSE "false")

\* C7: in the form fields _build_common_data builds, crop is "true" exactly
\* when a non-empty crop margin is supplied and "false" otherwise, add_shadow
\* and semitransparency are the strings "true"/"false" matching the truth of
\* their arguments, and crop_margin is the crop argument unchanged; the same
\* holds of the fields of every request sent.
C7_FlagNormalization ==
    /\ (pc = "done" /\ op = "_build_common_data") => FlagsNormalized(retval, args)
    /\ Called => \A i \in DOMAIN posts : FlagsNormalized(posts[i].data, args)

\* C7 witness: an empty crop margin was supplied and cropping is off.
C7_Witness ==
    /\ pc = "done" /\ op = "_build_common_data"
    /\ args.crop = "" /\ args.shadow /\ ~args.semitransparency
    /\ retval.crop = "false" /\ retval.add_shadow = "true"
    /\ retval.semitransparency = "false"

\* C8: every 2xx status is a success: with a non-empty new_file_name the
\* content is in the file and no error is logged (a failed open or write of
\* that file, logged as such, apart), with return_bytes=True the content is
\* returned; and after a response that is not 2xx the output file is as it was.
C8_Every2xxIsSuccess ==
    (Called /\ Answered) =>
        /\ Success2xx =>
              /\ outcome = "return"
              /\ Truthy(args.new_file_name) =>
                    \/ fs = response.content /\ log = <<>>
                    \/ log = <<WriteFailedEntry(args.new_file_name)>>
              /\ args.return_bytes => retval = response.content
        /\ ~Success2xx => fs = fs0

\* _output_file ran and took its error branch
ErrorBranchTaken ==
    /\ pc = "done"
    /\ Answered
    /\ ~IsOk(response.status_code)
    /\ \/ op = "_output_file"
       \/ /\ op \in EntryOps
          /\ ~raise_for_status(response.status_code)
          /\ Truthy(args.new_file_name)

\* the reason C9 expects for a response body
ExpectedReason(body) ==
    IF /\ body.kind = "json"
       /\ body.json.t = "obj"
       /\ body.json.errors.t = "list"
       /\ body.json.errors.items /= <<>>
       /\ body.json.errors.items[1].t = "obj"
       /\ body.json.errors.items[1].title.t = "str"
    THEN Lower(body.json.errors.items[1].title.s)
    ELSE UnknownError

\* C9: the error branch of _output_file never raises and logs exactly one
\* entry, whose reason is the first error title lower-cased when the body is
\* a JSON object whose errors is a non-empty list of objects with a string
\* title, and "unknown error" in every other case.
C9_ErrorExtractionNeverRaises ==
    ErrorBranchTaken =>
        /\ outcome = "return"
        /\ Len(log) = 1
        /\ log[1].msg = "Unable to save"
        /\ log[1].reason = ExpectedReason(response.content)

\* C10 as stated: in every entry operation, the file variant included, a POST
\* is sent only when a usable new_file_name (neither None nor empty) is given
\* or return_bytes is true; without either no POST is sent and the call ends
\* with ValueError (or, the source file failing to open, with that error).
C10_ConsumptionModeAsStated ==
    (Called /\ ~Truthy(args.new_file_name) /\ ~args.return_bytes) =>
        (posts = <<>> /\ (OptionsListed => outcome \in {"ValueError", "OSError"}))

\* C10 amended: the URL and base64 variants send a POST only when
\* new_file_name is not None or return_bytes is true (the file variant makes
\* no such check, and an empty new_file_name counts as given); and when a POST
\* was answered with 200 and return_bytes is true or new_file_name is
\* non-empty, the content is returned, or is in the file, or the failed write
\* is logged.
C10_PostNeedsConsumptionMode ==
    /\ (pc = "done" /\ op \in {"url", "base64"} /\ posts /= <<>>) =>
          (args.new_file_name /= None \/ args.return_bytes)
    /\ (Called /\ Answered /\ response.status_code = 200
            /\ (args.return_bytes \/ Truthy(args.new_file_name))) =>
          \/ retval = response.content
          \/ fs = response.content
          \/ log = <<WriteFailedEntry(args.new_file_name)>>

\* C10 witness: the URL variant sent its POST with an empty new_file_name and
\* return_bytes false, and the content of the 200 response went nowhere.
C10_Witness ==
    /\ pc = "done" /\ op = "url" /\ Len(posts) = 1
    /\ args.new_file_name = "" /\ ~args.return_bytes
    /\ response.status_code = 200
    /\ outcome = "return" /\ retval = NoneContent /\ fs = fs0 /\ log = <<>>

====
